---- MODULE Spec2Model ----
(***************************************************************************)
(* A model of the lexer (lexer.c), the recursive descent parser (parser.c) *)
(* and the two driver loops (interpreter.c, main.c) of the cc front end.   *)
(*                                                                         *)
(* Characters are their ASCII codes, as in the C source; EOF is -1.        *)
(* Tokens are records [type, is_literal, literal]; the literal is the C    *)
(* string held by the token, without its terminating NUL.                  *)
(***************************************************************************)
EXTENDS Integers, Sequences, FiniteSets, TLC

(***************************************************************************)
(* Bounds of the model.                                                    *)
(***************************************************************************)
\* Number of bytes of memory modelled from string[0] on (the line buffer
\* and what follows its terminating NUL).
MemLen == 4

\* Number of tokens the vector of main.c may hold before the model stops
\* following its loop.
MaxVec == 6

\* Number of tokens before TOK_EOF in an arbitrary token array.
MaxToks == 3

\* Number of operators in a chain  n0 op1 n1 ... opk nk.
MaxOps == 3

\* Number of whitespace tokens added to a token array.
MaxBlanks == 2

\* Number of tokens that follow the token put after an expression.
MaxTrail == 1

\* Number of bytes of the line buffer of interpreter.c that are modelled
\* when a line is lexed and then parsed: a text of at most LineLen - 3
\* characters, its terminating NUL and two bytes behind it.
LineLen == 6

\* Characters of the text of a line:  NUL '1' '2' '=' '|' '@' and 0xFF.
LineAlphabet == {0, 49, 50, 61, 64, 124, 255}

\* Bytes found behind the terminating NUL of a line:  NUL '+' '@'.
TailAlphabet == {0, 43, 64}

\* Characters the memory is filled with:  NUL ' ' '!' '&' '+' '1' '<' '='
\* '>' '@' 'a' '|' and the byte 0xFF.
Alphabet == {0, 32, 33, 38, 43, 49, 60, 61, 62, 64, 97, 124, 255}

(***************************************************************************)
(* Program constants.                                                      *)
(***************************************************************************)
EOF == -1

FILE_BACKED == "FILE_BACKED"

STRING_BACKED == "STRING_BACKED"

\* The token kinds named by lexer.c.
TokenKinds ==
    {"TOK_SPACE", "TOK_EOF", "TOK_NUMBER", "TOK_IDENT", "TOK_PLUS",
     "TOK_MINUS", "TOK_DIV", "TOK_MULTIPLY", "TOK_MOD", "TOK_QMARK",
     "TOK_COLON", "TOK_NEQUALITY", "TOK_EQUALITY", "TOK_BWAND", "TOK_LAND",
     "TOK_BWOR", "TOK_LOR", "TOK_LSHIFT", "TOK_LT", "TOK_LTE", "TOK_RSHIFT",
     "TOK_GT", "TOK_GTE", "TOK_BWXOR", "TOK_BWNEG", "TOK_LPAREN",
     "TOK_RPAREN", "TOK_SEMICOLON"}

\* The null pointer a lex_ch* function may return instead of a token.
NULL == [type |-> "NULL", is_literal |-> 0, literal |-> <<>>]

\* <ctype.h> in the C locale.
isdigit(c) == c \in 48..57

isalpha(c) == c \in (65..90) \cup (97..122)

isspace(c) == c \in {9, 10, 11, 12, 13, 32}

VARIABLES
    char_signed, \* whether the build's plain char is signed
    mem,     \* the bytes at string[0], string[1], ... (function on 0..n-1)
    driver,  \* "interpreter" (interpreter.c) or "main" (main.c)
    lctx,    \* the lex_t: type, position, and the character pushed back to
             \* the stream at its end; the other fields are bookkeeping
    tok,     \* what the last lex_token call returned
    start,   \* the position at which the last lex_token call started
    vec,     \* the driver's vec_token_t
    pc,      \* where the driver is
    tokens,  \* the token array handed to rdp_init
    rctx,    \* the rdp_t after rdp_generate_ast
    root,    \* the node rdp_generate_ast returned
    ppc,     \* where the parsing caller is
    base,    \* an earlier parse the current one is compared with
    rel,     \* how tokens was obtained from base.tokens
    out      \* what the caller does with root: "eval" or "Invalid expression"

lexvars == <<char_signed, mem, driver, lctx, tok, start, vec, pc>>

parvars == <<tokens, rctx, root, ppc, base, rel, out>>

vars == <<char_signed, mem, driver, lctx, tok, start, vec, pc,
          tokens, rctx, root, ppc, base, rel, out>>

(***************************************************************************)
(* Source backing.                                                         *)
(***************************************************************************)
\* Index of the first NUL in memory: the terminating marker of the string.
Marker == CHOOSE i \in DOMAIN mem :
              mem[i] = 0 /\ \A j \in 0..(i - 1) : mem[j] # 0

\* The text of the line (or of the file): the characters before the marker.
Input == [i \in 1..Marker |-> mem[i - 1]]

Max(a, b) == IF a >= b THEN a ELSE b

\* (char) c: the int c converted to the build's plain char.
to_char(c) ==
    IF char_signed THEN (IF c >= 128 THEN c - 256 ELSE c) ELSE c % 256

\* The operation recorded in the bookkeeping fields of the lex_t: `last' is
\* the last call on the backing, `got' what the last lex_getc returned,
\* `lost' that a lex_getc after a lex_ungetc returned something else than
\* the lex_getc before it.
Got(l, c) ==
    [l EXCEPT !.last = "get", !.got = c,
              !.lost = @ \/ (l.last = "unget" /\ c # l.got)]

\* lex_getc: returns [c, l], the character read and the lex_t afterwards.
\* A file yields the character pushed back to it if there is one, else
\* its next character, or EOF (and stays) at its end.  A string yields
\* string[position++] as a plain char, NUL being reported as EOF; the read
\* is not checked against the marker.  A read outside the modelled memory
\* sets `over': its value is undefined and the caller is followed no
\* further.
lex_getc(l) ==
    IF l.type = FILE_BACKED
    THEN IF l.pushed # EOF
         THEN [c |-> l.pushed, l |-> Got([l EXCEPT !.pushed = EOF], l.pushed)]
         ELSE IF l.position < Len(Input)
         THEN [c |-> Input[l.position + 1],
               l |-> Got([l EXCEPT !.position = @ + 1], Input[l.position + 1])]
         ELSE [c |-> EOF, l |-> Got(l, EOF)]
    ELSE IF l.position \notin DOMAIN mem
         THEN [c |-> EOF,
               l |-> Got([l EXCEPT !.position = @ + 1, !.over = TRUE,
                                   !.maxRead = Max(@, l.position)], EOF)]
         ELSE LET c == to_char(mem[l.position])
                  r == IF c # 0 THEN c ELSE EOF
              IN  [c |-> r,
                   l |-> Got([l EXCEPT !.position = @ + 1,
                                       !.maxRead = Max(@, l.position)], r)]

\* lex_ungetc(ctx, char c): the int handed over is converted to plain char.
\* ungetc(EOF) leaves a stream as it is; any other value is pushed back to
\* it as an unsigned char.  The string cursor is decremented whatever c is.
\* `twice' records a call that does not follow a lex_getc.
lex_ungetc(l, c) ==
    LET cc == to_char(c)
        u == [l EXCEPT !.last = "unget", !.twice = @ \/ l.last # "get"]
    IN  IF l.type = FILE_BACKED
        THEN IF cc = EOF THEN u ELSE [u EXCEPT !.pushed = cc % 256]
        ELSE [u EXCEPT !.position = @ - 1]

\* The index of the next character of the text: a character pushed back to
\* the stream stands before the ones not read yet.
Cursor(l) ==
    IF l.type = FILE_BACKED /\ l.pushed # EOF THEN l.position - 1
    ELSE l.position

(***************************************************************************)
(* Token constructors.                                                     *)
(***************************************************************************)
lex_mkspecial(type) == [type |-> type, is_literal |-> 0, literal |-> <<>>]

lex_mkkw(type) == [type |-> type, is_literal |-> 0, literal |-> <<>>]

lex_mknumber(type, number) ==
    [type |-> type, is_literal |-> 1, literal |-> number]

lex_mkident(type, identifier) ==
    [type |-> type, is_literal |-> 1, literal |-> identifier]

(***************************************************************************)
(* The lex_ch* functions.  Each returns [t, l]: the token and the lex_t.   *)
(***************************************************************************)
RECURSIVE lex_chnumber_loop(_, _)
\* The while loop of lex_chnumber: EOF ends it with nothing given back, a
\* non-digit is given back, a digit is appended.
lex_chnumber_loop(l, number) ==
    LET g == lex_getc(l) IN
    IF g.c = EOF THEN [l |-> g.l, text |-> number]
    ELSE IF ~isdigit(g.c)
         THEN [l |-> lex_ungetc(g.l, g.c), text |-> number]
         ELSE lex_chnumber_loop(g.l, Append(number, g.c))

lex_chnumber(l, value) ==
    LET r == lex_chnumber_loop(l, <<value>>) IN
    [t |-> lex_mknumber("TOK_NUMBER", r.text), l |-> r.l]

RECURSIVE lex_chident_loop(_, _)
\* The while loop of lex_chident: a character that is not a letter, or is
\* an underscore, is given back and ends the identifier.
lex_chident_loop(l, identifier) ==
    LET g == lex_getc(l) IN
    IF g.c = EOF THEN [l |-> g.l, text |-> identifier]
    ELSE IF ~isalpha(g.c) \/ g.c = 95
         THEN [l |-> lex_ungetc(g.l, g.c), text |-> identifier]
         ELSE lex_chident_loop(g.l, Append(identifier, g.c))

lex_chident(l, value) ==
    LET r == lex_chident_loop(l, <<value>>) IN
    [t |-> lex_mkident("TOK_IDENT", r.text), l |-> r.l]

\* '!' : "!=" or a null pointer; the character read is not given back.
lex_chnot(l) ==
    LET g == lex_getc(l) IN
    IF g.c = 61 THEN [t |-> lex_mkkw("TOK_NEQUALITY"), l |-> g.l]
    ELSE [t |-> NULL, l |-> g.l]

\* '=' : "==" or, after giving the character back, TOK_BWOR.
lex_cheq(l) ==
    LET g == lex_getc(l) IN
    IF g.c = 61 THEN [t |-> lex_mkkw("TOK_EQUALITY"), l |-> g.l]
    ELSE [t |-> lex_mkkw("TOK_BWOR"), l |-> lex_ungetc(g.l, g.c)]

lex_chor(l) ==
    LET g == lex_getc(l) IN
    IF g.c = 124 THEN [t |-> lex_mkkw("TOK_LOR"), l |-> g.l]
    ELSE [t |-> lex_mkkw("TOK_BWOR"), l |-> lex_ungetc(g.l, g.c)]

lex_chand(l) ==
    LET g == lex_getc(l) IN
    IF g.c = 38 THEN [t |-> lex_mkkw("TOK_LAND"), l |-> g.l]
    ELSE [t |-> lex_mkkw("TOK_BWAND"), l |-> lex_ungetc(g.l, g.c)]

lex_chlbr(l) ==
    LET g == lex_getc(l) IN
    IF g.c = 60 THEN [t |-> lex_mkkw("TOK_LSHIFT"), l |-> g.l]
    ELSE IF g.c = 61 THEN [t |-> lex_mkkw("TOK_LTE"), l |-> g.l]
    ELSE [t |-> lex_mkkw("TOK_LT"), l |-> lex_ungetc(g.l, g.c)]

lex_chrbr(l) ==
    LET g == lex_getc(l) IN
    IF g.c = 62 THEN [t |-> lex_mkkw("TOK_RSHIFT"), l |-> g.l]
    ELSE IF g.c = 61 THEN [t |-> lex_mkkw("TOK_GTE"), l |-> g.l]
    ELSE [t |-> lex_mkkw("TOK_GT"), l |-> lex_ungetc(g.l, g.c)]

RECURSIVE lex_skip_space_run(_)
\* lex_skip_space consuming the whole run of whitespace characters.
lex_skip_space_run(l) ==
    LET g == lex_getc(l) IN
    IF g.c = EOF THEN [r |-> 0, l |-> g.l]
    ELSE IF isspace(g.c)
         THEN [r |-> 1, l |-> lex_skip_space_run(g.l).l]
         ELSE [r |-> 0, l |-> lex_ungetc(g.l, g.c)]

\* lex_skip_space: returns [r, l]; r = 1 when one whitespace character was
\* consumed.  At EOF nothing is given back.
lex_skip_space(l) ==
    LET g == lex_getc(l) IN
    IF g.c = EOF THEN [r |-> 0, l |-> g.l]
    ELSE IF isspace(g.c) THEN [r |-> 1, l |-> g.l]
    ELSE [r |-> 0, l |-> lex_ungetc(g.l, g.c)]

\* Tokens of the characters lex_token maps to one fixed kind.
SingleKind ==
    [c \in {43, 45, 47, 42, 37, 63, 58, 94, 126, 40, 41, 59} |->
        CASE c = 43 -> "TOK_PLUS"
          [] c = 45 -> "TOK_MINUS"
          [] c = 47 -> "TOK_DIV"
          [] c = 42 -> "TOK_MULTIPLY"
          [] c = 37 -> "TOK_MOD"
          [] c = 63 -> "TOK_QMARK"
          [] c = 58 -> "TOK_COLON"
          [] c = 94 -> "TOK_BWXOR"
          [] c = 126 -> "TOK_BWNEG"
          [] c = 40 -> "TOK_LPAREN"
          [] c = 41 -> "TOK_RPAREN"
          [] c = 59 -> "TOK_SEMICOLON"]

\* lex_token: returns [t, l].
lex_token(l) ==
    LET s == lex_skip_space(l) IN
    IF s.r = 1 THEN [t |-> lex_mkspecial("TOK_SPACE"), l |-> s.l]
    ELSE
    LET g == lex_getc(s.l)
        c == g.c
    IN  CASE c \in DOMAIN SingleKind -> [t |-> lex_mkkw(SingleKind[c]), l |-> g.l]
          [] c = 33 -> lex_chnot(g.l)
          [] c = 61 -> lex_cheq(g.l)
          [] c = 38 -> lex_chand(g.l)
          [] c = 124 -> lex_chor(g.l)
          [] c = 60 -> lex_chlbr(g.l)
          [] c = 62 -> lex_chrbr(g.l)
          [] isdigit(c) -> lex_chnumber(g.l, c)
          [] isalpha(c) \/ c = 95 -> lex_chident(g.l, c)
          [] c = EOF -> [t |-> lex_mkspecial("TOK_EOF"), l |-> g.l]
          [] OTHER -> [t |-> lex_mkspecial("TOK_EOF"), l |-> g.l]

\* lex_init: the lex_t of a fresh lexer.
lex_init(type) ==
    [type |-> type, position |-> 0, pushed |-> EOF, maxRead |-> -1,
     over |-> FALSE, last |-> "none", got |-> EOF, twice |-> FALSE,
     lost |-> FALSE]

(***************************************************************************)
(* The driver loops.                                                       *)
(***************************************************************************)
\* Value of tok before the first lex_token call.
NoToken == [type |-> "NONE", is_literal |-> 0, literal |-> <<>>]

\* Values of the parser's variables while no parse is going on.
NoParse == [tokens |-> <<>>, position |-> 0, failed |-> FALSE, root |-> NULL]

IdleCtx == [tokens |-> <<>>, position |-> 0, length |-> 0, hi |-> -1]

\* interpreter.c lexes the line it read, main.c lexes a file.  The line
\* buffer holds a NUL; what follows the first NUL is whatever the memory
\* held.  Nothing follows the last character of a file.
InitLex ==
    /\ char_signed \in BOOLEAN
    /\ driver \in {"interpreter", "main"}
    /\ mem \in [0..(MemLen - 1) -> Alphabet]
    /\ \E i \in 0..(MemLen - 1) : mem[i] = 0
    /\ driver = "main" => \A i \in 0..(MemLen - 1) : i > Marker => mem[i] = 0
    /\ lctx = lex_init(IF driver = "main" THEN FILE_BACKED ELSE STRING_BACKED)
    /\ tok = NoToken
    /\ start = -1
    /\ vec = <<>>
    /\ pc = "lex"
    /\ tokens = <<>>
    /\ rctx = IdleCtx
    /\ root = NULL
    /\ ppc = "idle"
    /\ base = NoParse
    /\ rel = "none"
    /\ out = "none"

\* One iteration of the do-while loop of interpreter.c: a null token ends
\* the loop at the retry label, any other token is pushed, and the loop is
\* left after pushing TOK_EOF.
InterpLex ==
    /\ driver = "interpreter"
    /\ pc = "lex"
    /\ LET r == lex_token(lctx) IN
       /\ lctx' = r.l
       /\ start' = Cursor(lctx)
       /\ IF r.l.over
          THEN pc' = "overrun" /\ UNCHANGED <<tok, vec>>
          ELSE /\ tok' = r.t
               /\ IF r.t = NULL
                  THEN pc' = "retry" /\ UNCHANGED vec
                  ELSE /\ vec' = Append(vec, r.t)
                       /\ pc' = IF r.t.type # "TOK_EOF" THEN "lex" ELSE "lexed"
    /\ UNCHANGED <<char_signed, mem, driver>>
    /\ UNCHANGED parvars

\* One iteration of the while loop of main.c: only a null token ends it.
MainLex ==
    /\ driver = "main"
    /\ pc = "lex"
    /\ Len(vec) < MaxVec
    /\ LET r == lex_token(lctx) IN
       /\ lctx' = r.l
       /\ start' = Cursor(lctx)
       /\ tok' = r.t
       /\ IF r.t # NULL
          THEN vec' = Append(vec, r.t) /\ pc' = "lex"
          ELSE pc' = "print" /\ UNCHANGED vec
    /\ UNCHANGED <<char_signed, mem, driver>>
    /\ UNCHANGED parvars

NextLex == InterpLex \/ MainLex

SpecLex == InitLex /\ [][NextLex]_vars

(***************************************************************************)
(* Claims about the lexer.                                                 *)
(***************************************************************************)
\* The character the backing holds at index i (NUL where it holds none).
CharAt(i) ==
    IF lctx.type = FILE_BACKED
    THEN IF i < Len(Input) THEN Input[i + 1] ELSE 0
    ELSE IF i \in DOMAIN mem THEN mem[i] ELSE 0

\* No character located after the terminating NUL has been read.
WithinString == lctx.type = STRING_BACKED => lctx.maxRead <= Marker

\* C1: every value lex_token returns is a token whose kind is in the closed
\* enumeration, never a null pointer, and when the loop of interpreter.c has
\* ended the vector it filled has TOK_EOF as its last element and nowhere
\* else.  (Stated for the runs that read nothing after the terminating NUL.)
C1_TokensWellFormed ==
    WithinString =>
        /\ tok # NoToken => tok # NULL /\ tok.type \in TokenKinds
        /\ (driver = "interpreter" /\ pc \in {"lexed", "retry"}) =>
              /\ vec # <<>>
              /\ vec[Len(vec)].type = "TOK_EOF"
              /\ \A i \in 1..(Len(vec) - 1) : vec[i].type # "TOK_EOF"

\* The second characters that complete a two-character operator.
Completes ==
    [p \in {33, 61, 38, 124, 60, 62} |->
        CASE p = 33 -> {61}
          [] p = 61 -> {61}
          [] p = 38 -> {38}
          [] p = 124 -> {124}
          [] p = 60 -> {60, 61}
          [] p = 62 -> {62, 61}]

\* The kinds a prefix character may lex to on its own ('!' has no kind of
\* its own in the enumeration: any token will do).
AloneKind ==
    [p \in {33, 61, 38, 124, 60, 62} |->
        CASE p = 33 -> TokenKinds
          [] p = 61 -> {"TOK_BWOR"}
          [] p = 38 -> {"TOK_BWAND"}
          [] p = 124 -> {"TOK_BWOR"}
          [] p = 60 -> {"TOK_LT"}
          [] p = 62 -> {"TOK_GT"}]

\* C2: when a lex_token call started at one of '!' '=' '&' '|' '<' '>' and
\* the character x after it does not complete a two-character operator, the
\* call returned the token of the single character and left the cursor at x.
C2_PushBack ==
    (/\ start >= 0
     /\ tok # NoToken
     /\ pc # "overrun"
     /\ CharAt(start) \in DOMAIN Completes
     /\ CharAt(start + 1) # 0
     /\ CharAt(start + 1) \notin Completes[CharAt(start)])
    => /\ tok.type \in AloneKind[CharAt(start)]
       /\ Cursor(lctx) = start + 1

\* The string is a non-empty run of decimal digits.
DigitRun == Marker > 0 /\ \A i \in 0..(Marker - 1) : isdigit(mem[i])

\* C3: for a string that is a non-empty digit run d, whatever follows its
\* terminating NUL, the loop of interpreter.c collects exactly the number
\* token with text d and then the TOK_EOF token.
C3_DigitRunTwoTokens ==
    (driver = "interpreter" /\ DigitRun) =>
        LET expect == <<lex_mknumber("TOK_NUMBER", Input),
                        lex_mkspecial("TOK_EOF")>>
        IN  /\ Len(vec) <= 2
            /\ \A i \in 1..Len(vec) : vec[i] = expect[i]
            /\ pc \in {"lexed", "retry"} => pc = "lexed" /\ vec = expect

\* C4: the string-backed lexer never reads a character located after the
\* terminating NUL.
C4_NoReadPastMarker ==
    lctx.type = STRING_BACKED => lctx.maxRead <= Marker

\* C5: each driver loop has stopped exactly when it has observed TOK_EOF: it
\* does not stop for another reason and does not go on calling lex_token
\* after TOK_EOF.  (Stated for the runs that read nothing after the
\* terminating NUL.)
C5_StopsOnEof ==
    WithinString =>
        /\ pc \in {"lexed", "retry", "print"} => tok.type = "TOK_EOF"
        /\ tok.type = "TOK_EOF" => pc # "lex"

(***************************************************************************)
(* Parse context.  An rdp_t is [tokens, position, length]; hi is the       *)
(* highest index of tokens[] read so far (bookkeeping).                    *)
(***************************************************************************)
\* What a read at an index >= length finds: no token of the array.
OutOfBounds == [type |-> "OUT_OF_BOUNDS", is_literal |-> 0, literal |-> <<>>]

rdp_init(toks, length) ==
    [tokens |-> toks, position |-> 0, length |-> length, hi |-> -1]

\* ctx->tokens[i], and the context with the read recorded.
Fetch(ctx, i) == IF i < ctx.length THEN ctx.tokens[i + 1] ELSE OutOfBounds

Touch(ctx, i) == [ctx EXCEPT !.hi = Max(@, i)]

\* rdp_peek: returns [t, ctx].
rdp_peek(ctx) ==
    [t |-> Fetch(ctx, ctx.position), ctx |-> Touch(ctx, ctx.position)]

rdp_consume(ctx) == [ctx EXCEPT !.position = @ + 1]

\* rdp_pop: returns [t, ctx].
rdp_pop(ctx) ==
    LET p == rdp_peek(ctx) IN [t |-> p.t, ctx |-> rdp_consume(p.ctx)]

RECURSIVE rdp_consume_blanks_eof(_)
\* rdp_consume_blanks skipping every token lex_mkspecial makes.
rdp_consume_blanks_eof(ctx) ==
    IF Fetch(ctx, ctx.position).type \in {"TOK_SPACE", "TOK_EOF"}
    THEN rdp_consume_blanks_eof(rdp_consume(Touch(ctx, ctx.position)))
    ELSE Touch(ctx, ctx.position)

\* rdp_consume_blanks with an if in the place of the while.
rdp_consume_blanks_once(ctx) ==
    IF Fetch(ctx, ctx.position).type = "TOK_SPACE"
    THEN rdp_consume(Touch(ctx, ctx.position))
    ELSE Touch(ctx, ctx.position)

RECURSIVE rdp_consume_blanks(_)
rdp_consume_blanks(ctx) ==
    IF Fetch(ctx, ctx.position).type = "TOK_SPACE"
    THEN rdp_consume_blanks(rdp_consume(Touch(ctx, ctx.position)))
    ELSE Touch(ctx, ctx.position)

(***************************************************************************)
(* Nodes.                                                                  *)
(***************************************************************************)
ast_binary_operator(id, left, right) ==
    [id |-> id, left |-> left, right |-> right, is_term |-> 0]

ast_unary_operator(id, operand) ==
    [id |-> id, operand |-> operand, is_term |-> 0]

ast_number(value) == [id |-> "TOK_NUMBER", value |-> value, is_term |-> 1]

RECURSIVE strtol_from(_, _, _)
\* strtol(s, NULL, 10) on a string without sign or leading space: the value
\* of its longest prefix of digits.  (Saturation at LONG_MAX needs more
\* digits than a literal of the model has.)
strtol_from(s, i, acc) ==
    IF i > Len(s) \/ ~isdigit(s[i]) THEN acc
    ELSE strtol_from(s, i + 1, acc * 10 + (s[i] - 48))

strtol(s) == strtol_from(s, 1, 0)

(***************************************************************************)
(* Grammar functions.  Each returns [node, ctx, err]; err says that xerror *)
(* was called, which abandons the whole parse.                             *)
(***************************************************************************)
\* xerror: the parse attempt is left through a non-local jump; no grammar
\* function goes on and no node reaches the caller.
xerror(ctx) == [node |-> NULL, ctx |-> ctx, err |-> TRUE]

Ok(node, ctx) == [node |-> node, ctx |-> ctx, err |-> FALSE]

\* What follows a call of a grammar function: nothing when it ended in
\* xerror, K applied to its result otherwise.
Then(r, K(_)) == IF r.err THEN r ELSE K(r)

RECURSIVE rdp_expression(_)
RECURSIVE rdp_additive_exp(_)
RECURSIVE rdp_mult_exp(_)

rdp_const(ctx) ==
    LET p == rdp_pop(rdp_consume_blanks(ctx)) IN
    IF p.t.type # "TOK_NUMBER" THEN xerror(p.ctx)
    ELSE Ok(ast_number(strtol(p.t.literal)), p.ctx)

\* The closing of rdp_primary_exp returning expr whatever token it popped.
rdp_primary_close_any(e) ==
    LET right == rdp_pop(rdp_consume_blanks(e.ctx)) IN
    Ok(e.node, right.ctx)

\* The closing of a parenthesized expression e: pop and require ')'.
rdp_primary_close(e) ==
    LET right == rdp_pop(rdp_consume_blanks(e.ctx)) IN
    IF right.t.type = "TOK_RPAREN" THEN Ok(e.node, right.ctx)
    ELSE xerror(right.ctx)

\* rdp_primary_exp making a node of the parentheses.
rdp_primary_exp_node(ctx) ==
    LET left == rdp_peek(rdp_consume_blanks(ctx)) IN
    IF left.t.type = "TOK_LPAREN"
    THEN Then(rdp_expression(rdp_consume(left.ctx)),
              LAMBDA e : rdp_primary_close(
                  Ok(ast_unary_operator("TOK_LPAREN", e.node), e.ctx)))
    ELSE rdp_const(left.ctx)

rdp_primary_exp(ctx) ==
    LET left == rdp_peek(rdp_consume_blanks(ctx)) IN
    IF left.t.type = "TOK_LPAREN"
    THEN Then(rdp_expression(rdp_consume(left.ctx)), rdp_primary_close)
    ELSE rdp_const(left.ctx)

rdp_unary_exp(ctx) == rdp_primary_exp(ctx)

RECURSIVE rdp_mult_loop(_, _)
\* The while (1) of rdp_mult_exp, left being the tree folded so far.
rdp_mult_loop(ctx, left) ==
    LET op == rdp_peek(rdp_consume_blanks(ctx)) IN
    IF op.t.type \in {"TOK_MULTIPLY", "TOK_DIV", "TOK_MOD"}
    THEN Then(rdp_unary_exp(rdp_consume(op.ctx)),
              LAMBDA r : rdp_mult_loop(r.ctx,
                             ast_binary_operator(op.t.type, left, r.node)))
    ELSE Ok(left, op.ctx)

rdp_mult_exp(ctx) ==
    Then(rdp_unary_exp(ctx), LAMBDA l : rdp_mult_loop(l.ctx, l.node))

\* The loop of rdp_additive_exp taking the whole rest as its right operand.
rdp_additive_loop_right(ctx, left) ==
    LET op == rdp_peek(rdp_consume_blanks(ctx)) IN
    IF op.t.type \in {"TOK_PLUS", "TOK_MINUS"}
    THEN Then(rdp_additive_exp(rdp_consume(op.ctx)),
              LAMBDA r : Ok(ast_binary_operator(op.t.type, left, r.node), r.ctx))
    ELSE Ok(left, op.ctx)

RECURSIVE rdp_additive_loop_unary(_, _)
\* The loop of rdp_additive_exp taking a unary expression as right operand.
rdp_additive_loop_unary(ctx, left) ==
    LET op == rdp_peek(rdp_consume_blanks(ctx)) IN
    IF op.t.type \in {"TOK_PLUS", "TOK_MINUS"}
    THEN Then(rdp_unary_exp(rdp_consume(op.ctx)),
              LAMBDA r : rdp_additive_loop_unary(r.ctx,
                             ast_binary_operator(op.t.type, left, r.node)))
    ELSE Ok(left, op.ctx)

RECURSIVE rdp_additive_loop(_, _)
rdp_additive_loop(ctx, left) ==
    LET op == rdp_peek(rdp_consume_blanks(ctx)) IN
    IF op.t.type \in {"TOK_PLUS", "TOK_MINUS"}
    THEN Then(rdp_mult_exp(rdp_consume(op.ctx)),
              LAMBDA r : rdp_additive_loop(r.ctx,
                             ast_binary_operator(op.t.type, left, r.node)))
    ELSE Ok(left, op.ctx)

rdp_additive_exp(ctx) ==
    Then(rdp_mult_exp(ctx), LAMBDA l : rdp_additive_loop(l.ctx, l.node))

RECURSIVE rdp_and_loop(_, _)
rdp_and_loop(ctx, left) ==
    LET op == rdp_peek(rdp_consume_blanks(ctx)) IN
    IF op.t.type = "TOK_BWAND"
    THEN Then(rdp_additive_exp(rdp_consume(op.ctx)),
              LAMBDA r : rdp_and_loop(r.ctx,
                             ast_binary_operator(op.t.type, left, r.node)))
    ELSE Ok(left, op.ctx)

rdp_and_exp(ctx) ==
    Then(rdp_additive_exp(ctx), LAMBDA l : rdp_and_loop(l.ctx, l.node))

RECURSIVE rdp_xor_loop(_, _)
rdp_xor_loop(ctx, left) ==
    LET op == rdp_peek(rdp_consume_blanks(ctx)) IN
    IF op.t.type = "TOK_BWXOR"
    THEN Then(rdp_and_exp(rdp_consume(op.ctx)),
              LAMBDA r : rdp_xor_loop(r.ctx,
                             ast_binary_operator(op.t.type, left, r.node)))
    ELSE Ok(left, op.ctx)

rdp_xor_exp(ctx) ==
    Then(rdp_and_exp(ctx), LAMBDA l : rdp_xor_loop(l.ctx, l.node))

RECURSIVE rdp_ior_loop(_, _)
rdp_ior_loop(ctx, left) ==
    LET op == rdp_peek(rdp_consume_blanks(ctx)) IN
    IF op.t.type = "TOK_BWOR"
    THEN Then(rdp_xor_exp(rdp_consume(op.ctx)),
              LAMBDA r : rdp_ior_loop(r.ctx,
                             ast_binary_operator(op.t.type, left, r.node)))
    ELSE Ok(left, op.ctx)

rdp_ior_exp(ctx) ==
    Then(rdp_xor_exp(ctx), LAMBDA l : rdp_ior_loop(l.ctx, l.node))

rdp_expression(ctx) == rdp_ior_exp(ctx)

\* rdp_generate_ast requiring TOK_EOF after the expression.
rdp_generate_ast_eof(ctx) ==
    Then(rdp_expression(ctx),
         LAMBDA e : LET p == rdp_pop(rdp_consume_blanks(e.ctx)) IN
                    IF p.t.type = "TOK_EOF" THEN Ok(e.node, p.ctx)
                    ELSE xerror(p.ctx))

rdp_generate_ast(ctx) == rdp_expression(ctx)

(***************************************************************************)
(* The caller of the parser.  As interpreter.c does line after line, it    *)
(* parses one token array after another; the next array is the last one    *)
(* put in parentheses, or with a whitespace token added.                   *)
(***************************************************************************)
TokEof == lex_mkspecial("TOK_EOF")

TokSpace == lex_mkspecial("TOK_SPACE")

\* The texts of the number tokens of the model: "1" and "23".
Literals == {<<49>>, <<50, 51>>}

\* The operator kinds of the grammar.
Operators ==
    {"TOK_MULTIPLY", "TOK_DIV", "TOK_MOD", "TOK_PLUS", "TOK_MINUS",
     "TOK_BWAND", "TOK_BWXOR", "TOK_BWOR"}

\* The tokens arbitrary arrays are made of.
ParseAlphabet ==
    {lex_mknumber("TOK_NUMBER", <<49>>), lex_mkkw("TOK_PLUS"),
     lex_mkkw("TOK_MULTIPLY"), lex_mkkw("TOK_BWOR"), lex_mkkw("TOK_LPAREN"),
     lex_mkkw("TOK_RPAREN"), TokSpace, lex_mkident("TOK_IDENT", <<97>>)}

\* tokens is an array of at most MaxToks tokens followed by TOK_EOF.
GeneralInput ==
    \E n \in 0..MaxToks : \E s \in [1..n -> ParseAlphabet] :
        tokens = Append(s, TokEof)

\* The array  n0 op1 n1 ... opk nk TOK_EOF.
ChainOf(k, nums, ops) ==
    [i \in 1..(2 * k + 2) |->
        IF i = 2 * k + 2 THEN TokEof
        ELSE IF i % 2 = 1 THEN lex_mknumber("TOK_NUMBER", nums[(i - 1) \div 2])
        ELSE lex_mkkw(ops[i \div 2])]

\* tokens is a chain of at most MaxOps operators; its numbers are "1" and
\* "23" in turn, starting with either.
ChainInput ==
    \E k \in 1..MaxOps : \E first \in Literals : \E ops \in [1..k -> Operators] :
        LET other == CHOOSE l \in Literals : l # first
            nums == [i \in 0..k |-> IF i % 2 = 0 THEN first ELSE other]
        IN  tokens = ChainOf(k, nums, ops)

\* What is kept of a parse: its array, the final cursor and the node.
Snapshot == [tokens |-> tokens, position |-> rctx.position,
             failed |-> root = NULL, root |-> root]

InitParse ==
    /\ GeneralInput \/ ChainInput
    /\ rctx = rdp_init(tokens, Len(tokens))
    /\ root = NULL
    /\ ppc = "ready"
    /\ base = NoParse
    /\ rel = "none"
    /\ out = "none"
    /\ char_signed = TRUE
    /\ mem = [i \in 0..(MemLen - 1) |-> 0]
    /\ driver = "none"
    /\ lctx = lex_init(STRING_BACKED)
    /\ tok = NoToken
    /\ start = -1
    /\ vec = <<>>
    /\ pc = "idle"

\* if (root) of interpreter.c: the tree is evaluated, or the line is given
\* up with "Invalid expression".
Branch(node) == IF node # NULL THEN "eval" ELSE "Invalid expression"

\* node_t *root = rdp_generate_ast(rctx): root is null when the parse failed.
RdpGenerateAst ==
    /\ ppc = "ready"
    /\ LET r == rdp_generate_ast(rctx) IN
       /\ rctx' = r.ctx
       /\ root' = IF r.err THEN NULL ELSE r.node
    /\ out' = Branch(root')
    /\ ppc' = "done"
    /\ UNCHANGED <<tokens, base, rel>>
    /\ UNCHANGED lexvars

\* The next array is the last one between '(' and ')'.
Parenthesize ==
    /\ ppc = "done"
    /\ rel = "none"
    /\ base' = Snapshot
    /\ tokens' = <<lex_mkkw("TOK_LPAREN")>>
                     \o SubSeq(tokens, 1, Len(tokens) - 1)
                     \o <<lex_mkkw("TOK_RPAREN"), TokEof>>
    /\ rctx' = rdp_init(tokens', Len(tokens'))
    /\ root' = NULL
    /\ ppc' = "ready"
    /\ rel' = "paren"
    /\ out' = "none"
    /\ UNCHANGED lexvars

\* The next array is the last one with a whitespace token added before its
\* i-th token (before TOK_EOF at the latest).
InsertBlank ==
    /\ ppc = "done"
    /\ rel \in {"none", "blank"}
    /\ base' = IF rel = "none" THEN Snapshot ELSE base
    /\ Len(base'.tokens) <= MaxToks + 1
    /\ Len(tokens) - Len(base'.tokens) < MaxBlanks
    /\ \E i \in 1..Len(tokens) :
          tokens' = SubSeq(tokens, 1, i - 1) \o <<TokSpace>>
                        \o SubSeq(tokens, i, Len(tokens))
    /\ rctx' = rdp_init(tokens', Len(tokens'))
    /\ root' = NULL
    /\ ppc' = "ready"
    /\ rel' = "blank"
    /\ out' = "none"
    /\ UNCHANGED lexvars

RECURSIVE Scan(_, _, _, _)
\* The grammar written above the functions of parser.c, read along the
\* array ts (which ends with TOK_EOF) from its i-th token on, with d
\* parentheses open and `operand' telling whether a number or '(' is due.
\* The value is the index of the token at which the expression ends, or 0
\* when the array is no expression up to any token.
Scan(ts, i, d, operand) ==
    LET t == ts[i].type IN
    IF t = "TOK_SPACE" THEN Scan(ts, i + 1, d, operand)
    ELSE IF operand
    THEN CASE t = "TOK_NUMBER" -> Scan(ts, i + 1, d, FALSE)
           [] t = "TOK_LPAREN" -> Scan(ts, i + 1, d + 1, TRUE)
           [] OTHER -> 0
    ELSE CASE t \in Operators -> Scan(ts, i + 1, d, TRUE)
           [] t = "TOK_RPAREN" /\ d > 0 -> Scan(ts, i + 1, d - 1, FALSE)
           [] OTHER -> IF d > 0 THEN 0 ELSE i

\* The array is an expression from its first token to its TOK_EOF.
ValidExpression(ts) == Scan(ts, 1, 0, TRUE) = Len(ts)

\* The operator and punctuation kinds the grammar has no rule for.
OtherOperators ==
    {"TOK_QMARK", "TOK_COLON", "TOK_NEQUALITY", "TOK_EQUALITY", "TOK_LAND",
     "TOK_LOR", "TOK_LSHIFT", "TOK_LT", "TOK_LTE", "TOK_RSHIFT", "TOK_GT",
     "TOK_GTE", "TOK_BWNEG", "TOK_SEMICOLON"}

\* The tokens that cannot continue an expression: a number, ')', an
\* identifier, an operator of no rule.
Stoppers ==
    {lex_mknumber("TOK_NUMBER", <<49>>), lex_mkkw("TOK_RPAREN"),
     lex_mkident("TOK_IDENT", <<97>>)}
        \cup {lex_mkkw(k) : k \in OtherOperators}

\* The next array is the last one, an expression up to its TOK_EOF, with a
\* token that cannot continue it and at most MaxTrail further tokens put
\* before TOK_EOF.
AppendTrailing ==
    /\ ppc = "done"
    /\ rel = "none"
    /\ ValidExpression(tokens)
    /\ Len(tokens) <= MaxToks + 1
    /\ base' = Snapshot
    /\ \E stop \in Stoppers : \E n \in 0..MaxTrail :
       \E more \in [1..n -> ParseAlphabet] :
          tokens' = SubSeq(tokens, 1, Len(tokens) - 1) \o <<stop>> \o more
                        \o <<TokEof>>
    /\ rctx' = rdp_init(tokens', Len(tokens'))
    /\ root' = NULL
    /\ ppc' = "ready"
    /\ rel' = "trail"
    /\ out' = "none"
    /\ UNCHANGED lexvars

NextParse == RdpGenerateAst \/ Parenthesize \/ InsertBlank \/ AppendTrailing

SpecParse == InitParse /\ [][NextParse]_vars

(***************************************************************************)
(* The loop of interpreter.c as a whole: a line is lexed, the token vector *)
(* is parsed, and fgets puts the next line at the start of the same        *)
(* buffer, whose other bytes stay as they are.                             *)
(***************************************************************************)
\* char buffer[512] when fgets has stored a line: a text, its NUL and
\* whatever the buffer held before.
InitLine ==
    /\ char_signed \in BOOLEAN
    /\ driver = "interpreter"
    /\ mem \in [0..(LineLen - 1) -> LineAlphabet \cup TailAlphabet]
    /\ \A i \in 0..(LineLen - 4) : mem[i] \in LineAlphabet
    /\ mem[LineLen - 3] = 0
    /\ \A i \in (LineLen - 2)..(LineLen - 1) : mem[i] \in TailAlphabet
    /\ lctx = lex_init(STRING_BACKED)
    /\ tok = NoToken
    /\ start = -1
    /\ vec = <<>>
    /\ pc = "lex"
    /\ tokens = <<>>
    /\ rctx = IdleCtx
    /\ root = NULL
    /\ ppc = "idle"
    /\ base = NoParse
    /\ rel = "none"
    /\ out = "none"

\* rdp_init(tokens->data, tokens->len), rdp_generate_ast and the if (root)
\* that follows.
InterpParse ==
    /\ driver = "interpreter"
    /\ pc = "lexed"
    /\ tokens' = vec
    /\ LET r == rdp_generate_ast(rdp_init(vec, Len(vec))) IN
       /\ rctx' = r.ctx
       /\ root' = IF r.err THEN NULL ELSE r.node
    /\ out' = Branch(root')
    /\ pc' = (IF root' # NULL THEN "eval" ELSE "invalid")
    /\ ppc' = "done"
    /\ UNCHANGED <<char_signed, mem, driver, lctx, tok, start, vec, base, rel>>

\* The text is  a = b  for two digit runs a and b; the value is the index
\* of its '='  (0 when the text is of another form).
EqIndex ==
    IF \E k \in 2..(Len(Input) - 1) :
          /\ Input[k] = 61
          /\ \A i \in 1..Len(Input) : i # k => isdigit(Input[i])
    THEN CHOOSE k \in 2..(Len(Input) - 1) : Input[k] = 61
    ELSE 0

\* The next line.  fgets has stored it over the start of the last one and
\* the lexer and the vector are made anew.
NextLine(line, how) ==
    /\ mem' = line
    /\ base' = Snapshot
    /\ rel' = how
    /\ lctx' = lex_init(STRING_BACKED)
    /\ tok' = NoToken
    /\ start' = -1
    /\ vec' = <<>>
    /\ pc' = "lex"
    /\ tokens' = <<>>
    /\ rctx' = IdleCtx
    /\ root' = NULL
    /\ ppc' = "idle"
    /\ out' = "none"
    /\ UNCHANGED <<char_signed, driver>>

\* After a line  a=b  comes the line  a|b.
NextLineBwor ==
    /\ driver = "interpreter"
    /\ pc \in {"eval", "invalid"}
    /\ rel = "none"
    /\ EqIndex # 0
    /\ NextLine([mem EXCEPT ![EqIndex - 1] = 124], "bwor")

\* The characters lex_token has no case for.
Unknown == {64, 255}

\* After a line whose lexing stopped at a character without a case comes
\* the same line cut off just before that character.
NextLineTruncated ==
    /\ driver = "interpreter"
    /\ pc \in {"eval", "invalid"}
    /\ rel = "none"
    /\ start \in 0..(Marker - 1)
    /\ mem[start] \in Unknown
    /\ NextLine([mem EXCEPT ![start] = 0], "trunc")

NextInterp == InterpLex \/ InterpParse \/ NextLineBwor \/ NextLineTruncated

SpecInterp == InitLine /\ [][NextInterp]_vars

(***************************************************************************)
(* Claims about the parser.  The cursor only ever grows and hi is the      *)
(* highest index read, so their values once rdp_generate_ast is over bound *)
(* the values they had during the call.                                    *)
(***************************************************************************)
\* C6 as stated: the cursor is a valid index (0 <= position < length) in
\* every state, also after rdp_pop consumed TOK_EOF in a failing parse, and
\* no index >= length is read.
C6_CursorValidIndex ==
    ppc \in {"ready", "done"} =>
        /\ 0 <= rctx.position
        /\ rctx.position < rctx.length
        /\ rctx.hi < rctx.length

\* C6 amended: 0 <= position <= length in every state; position = length
\* only when rdp_pop has consumed TOK_EOF and the parse has failed; no index
\* >= length is ever read.
C6_CursorWithinArray ==
    ppc \in {"ready", "done"} =>
        /\ 0 <= rctx.position
        /\ rctx.position <= rctx.length
        /\ rctx.hi < rctx.length
        /\ rctx.position = rctx.length =>
              /\ root = NULL
              /\ ppc = "done"
              /\ rctx.hi = rctx.length - 1

\* A failing parse has popped the TOK_EOF that closes "( 1".
C6_Witness ==
    /\ ppc = "done"
    /\ root = NULL
    /\ rctx.position = rctx.length
    /\ rctx.length >= 3
    /\ tokens[1].type = "TOK_LPAREN"

\* The precedence levels, from the loosest to the tightest.
Level ==
    [op \in Operators |->
        CASE op = "TOK_BWOR" -> 1
          [] op = "TOK_BWXOR" -> 2
          [] op = "TOK_BWAND" -> 3
          [] op \in {"TOK_PLUS", "TOK_MINUS"} -> 4
          [] op \in {"TOK_MULTIPLY", "TOK_DIV", "TOK_MOD"} -> 5]

\* The value denoted by each number text of the model.
ValueOf(lit) == CASE lit = <<49>> -> 1 [] lit = <<50, 51>> -> 23

Leaf(t) == [id |-> "TOK_NUMBER", value |-> ValueOf(t.literal), is_term |-> 1]

Binary(op, l, r) == [id |-> op, left |-> l, right |-> r, is_term |-> 0]

\* ts is  n0 op1 n1 ... opk nk TOK_EOF  with k >= 1 operators.
IsChain(ts) ==
    /\ Len(ts) >= 4
    /\ Len(ts) % 2 = 0
    /\ ts[Len(ts)] = TokEof
    /\ \A i \in 1..(Len(ts) - 1) :
          IF i % 2 = 1 THEN ts[i].type = "TOK_NUMBER" /\ ts[i].literal \in Literals
          ELSE ts[i].type \in Operators

RECURSIVE LeftNested(_, _)
\* Binary(opk, ... Binary(op1, n0, n1) ..., nk) for the chain ts.
LeftNested(ts, k) ==
    IF k = 0 THEN Leaf(ts[1])
    ELSE Binary(ts[2 * k].type, LeftNested(ts, k - 1), Leaf(ts[2 * k + 1]))

\* C7: a chain of numbers joined by operators of one precedence level
\* parses to the left-nested tree.
C7_LeftAssociative ==
    (/\ ppc = "done"
     /\ IsChain(tokens)
     /\ \A i, j \in 1..(Len(tokens) - 1) :
           (i % 2 = 0 /\ j % 2 = 0) =>
               Level[tokens[i].type] = Level[tokens[j].type])
    => root = LeftNested(tokens, (Len(tokens) - 2) \div 2)

\* n0 - n1 + n2 has been parsed: the left child of the root is a binary node.
C7_Witness ==
    /\ ppc = "done"
    /\ Len(tokens) = 6
    /\ IsChain(tokens)
    /\ tokens[2].type = "TOK_MINUS"
    /\ tokens[4].type = "TOK_PLUS"
    /\ root # NULL
    /\ root.is_term = 0
    /\ root.left.is_term = 0
    /\ root.right.is_term = 1

\* C8: in  a op1 b op2 c  with op1 and op2 of different levels, the node of
\* the tighter operator is a child of the node of the other one.
C8_Precedence ==
    (/\ ppc = "done"
     /\ IsChain(tokens)
     /\ Len(tokens) = 6
     /\ Level[tokens[2].type] # Level[tokens[4].type])
    => root = IF Level[tokens[2].type] > Level[tokens[4].type]
              THEN Binary(tokens[4].type,
                          Binary(tokens[2].type, Leaf(tokens[1]), Leaf(tokens[3])),
                          Leaf(tokens[5]))
              ELSE Binary(tokens[2].type,
                          Leaf(tokens[1]),
                          Binary(tokens[4].type, Leaf(tokens[3]), Leaf(tokens[5])))

\* a + b * c has been parsed: the right child of the root is the product.
C8_Witness ==
    /\ ppc = "done"
    /\ Len(tokens) = 6
    /\ IsChain(tokens)
    /\ tokens[2].type = "TOK_PLUS"
    /\ tokens[4].type = "TOK_MULTIPLY"
    /\ root # NULL
    /\ root.id = "TOK_PLUS"
    /\ root.left.is_term = 1
    /\ root.right.is_term = 0
    /\ root.right.id = "TOK_MULTIPLY"

\* The earlier parse succeeded and stopped at the TOK_EOF of its array.
BaseConsumedEntirely ==
    /\ ~base.failed
    /\ base.position = Len(base.tokens) - 1

\* C9: when E parses successfully and is consumed entirely, "(" E ")"
\* parses successfully to the same tree.
C9_ParenthesesAddNoNode ==
    (/\ ppc = "done"
     /\ rel = "paren"
     /\ BaseConsumedEntirely)
    => /\ root # NULL
       /\ root = base.root

\* "(" E ")" has been parsed for an E that parsed to a binary node.
C9_Witness ==
    /\ ppc = "done"
    /\ rel = "paren"
    /\ BaseConsumedEntirely
    /\ Len(tokens) = Len(base.tokens) + 2
    /\ base.root.is_term = 0
    /\ root # NULL

\* C10: adding whitespace tokens before TOK_EOF keeps the outcome: both
\* parses fail, or both succeed with the same tree.
C10_WhitespaceInsensitive ==
    (ppc = "done" /\ rel = "blank")
    => /\ (root = NULL) <=> base.failed
       /\ root = base.root

\* Two whitespace tokens, one of them in front, were added to an array that
\* parses to a binary node, and the result has been parsed.
C10_Witness ==
    /\ ppc = "done"
    /\ rel = "blank"
    /\ Len(tokens) = Len(base.tokens) + 2
    /\ tokens[1] = TokSpace
    /\ base.tokens[1] # TokSpace
    /\ ~base.failed
    /\ base.root.is_term = 0
    /\ root # NULL

\* Whitespace was added to an array whose parse fails, and it fails again.
C10_WitnessFail ==
    /\ ppc = "done"
    /\ rel = "blank"
    /\ base.failed
    /\ root = NULL

(***************************************************************************)
(* Claims about failing parses and about what follows an expression.       *)
(***************************************************************************)
\* A token is met where another kind is required: something else than a
\* number or '(' where an operand is due, or something else than ')' where
\* an open parenthesis has to be closed.
Mismatch == Scan(tokens, 1, 0, TRUE) = 0

C11_WitnessPrimary ==
    /\ ppc = "done"
    /\ Len(tokens) = 2
    /\ tokens[1].type = "TOK_RPAREN"
    /\ root = NULL
    /\ out = "Invalid expression"

\* C12: rdp_generate_ast does not require TOK_EOF where rdp_expression
\* stops: an array made of an expression E, a token that cannot continue E
\* and further tokens parses to the tree of E alone, and the cursor is left
\* on the token that follows E, nothing behind it having been read.
C12_TrailingTokensIgnored ==
    (ppc = "done" /\ rel = "trail")
    => /\ root # NULL
       /\ root = base.root
       /\ out = "eval"
       /\ rctx.position = Len(base.tokens) - 1
       /\ rctx.hi = rctx.position

\* An expression that parses to a binary node, then ')' and one more token,
\* has been parsed.
C12_Witness ==
    /\ ppc = "done"
    /\ rel = "trail"
    /\ Len(tokens) = Len(base.tokens) + 2
    /\ tokens[Len(base.tokens)].type = "TOK_RPAREN"
    /\ base.root.is_term = 0
    /\ root = base.root
    /\ rctx.position < Len(tokens) - 1

(***************************************************************************)
(* Claims about the two backings and about single characters.              *)
(***************************************************************************)
RECURSIVE lex_all(_, _, _)
\* What lex_token returns, call after call on l, up to the first TOK_EOF or
\* null token (included); n bounds the number of calls.
lex_all(l, acc, n) ==
    IF n = 0 THEN acc
    ELSE LET r == lex_token(l) IN
         IF r.t = NULL \/ r.t.type = "TOK_EOF" THEN Append(acc, r.t)
         ELSE lex_all(r.l, Append(acc, r.t), n - 1)

\* The tokens of the text lexed as the content of a file.
FileTokens == lex_all(lex_init(FILE_BACKED), <<>>, Marker + 2)

\* What lex_token has returned so far to the loop of interpreter.c.
Returned == IF pc = "retry" THEN Append(vec, NULL) ELSE vec

\* C13: the string-backed lexer returns, token after token, what the
\* file-backed lexer returns for the same text, and ends where it ends.
C13_SameTokensBothBackings ==
    (driver = "interpreter" /\ pc # "overrun")
    => /\ Len(Returned) <= Len(FileTokens)
       /\ \A i \in 1..Len(Returned) : Returned[i] = FileTokens[i]
       /\ pc \in {"lexed", "retry"} => Returned = FileTokens

\* C14: every lex_ungetc call directly follows a lex_getc call on the same
\* backing, and the lex_getc call after it returns what the one before it
\* returned, EOF included.
C14_UngetUndoesGet ==
    pc # "overrun" => ~lctx.twice /\ ~lctx.lost

\* The first half of C14 alone: every lex_ungetc call directly follows a
\* lex_getc call.
C14_UngetFollowsGet == ~lctx.twice

\* The second half of C14 on a string: the lex_getc call after a lex_ungetc
\* call returns what the one before it returned.
C14_StringRestored ==
    (lctx.type = STRING_BACKED /\ pc # "overrun") => ~lctx.lost


(***************************************************************************)
(* Claims about whole lines: lexed, then parsed.                           *)
(***************************************************************************)
\* The kinds of the tokens of an array.
Kinds(ts) == [i \in 1..Len(ts) |-> ts[i].type]

\* The line  a|b  that followed  a=b  has been lexed and parsed.
BworDone == rel = "bwor" /\ pc \in {"eval", "invalid", "retry"}

\* C15: a '=' that no '=' follows lexes to TOK_BWOR: the lines  a=b  and
\* a|b  give the same kinds of tokens, and both parse to
\* Binary(TOK_BWOR, Leaf(a), Leaf(b)).
C15_EqLexesAsBwor ==
    /\ (pc \in {"eval", "invalid", "retry"} /\ EqIndex # 0) =>
          /\ pc = "eval"
          /\ Len(tokens) = 4
          /\ tokens[2].type = "TOK_BWOR"
          /\ root = Binary("TOK_BWOR",
                           ast_number(strtol(SubSeq(Input, 1, EqIndex - 1))),
                           ast_number(strtol(SubSeq(Input, EqIndex + 1,
                                                    Len(Input)))))
    /\ BworDone =>
          /\ Kinds(tokens) = Kinds(base.tokens)
          /\ root = base.root

\* C15 for the lines behind which the buffer holds NUL bytes only.
C15_EqLexesAsBworCleanTail ==
    (\A i \in DOMAIN mem : i > Marker => mem[i] = 0) => C15_EqLexesAsBwor

\* The last lex_token call started at a character lex_token has no case
\* for, inside the text of the line.
AtUnknown ==
    /\ tok # NoToken
    /\ pc # "overrun"
    /\ start \in 0..(Marker - 1)
    /\ mem[start] \in Unknown

\* C16: a lex_token call that finds a character without a case returns
\* TOK_EOF, the loop of interpreter.c ends there without having read any
\* character behind it, and the line parses as the line cut off just before
\* that character does.
C16_UnknownCharEndsLine ==
    /\ (rel = "none" /\ AtUnknown) =>
          /\ tok = lex_mkspecial("TOK_EOF")
          /\ pc \in {"lexed", "eval", "invalid"}
          /\ lctx.maxRead = start
    /\ (rel = "trunc" /\ pc \in {"eval", "invalid", "retry"}) =>
          /\ pc # "retry"
          /\ Kinds(tokens) = Kinds(base.tokens)
          /\ root = base.root

\* C16 for '@', and for a cut-off line behind which the buffer holds NUL
\* bytes only.
C16_AtSignEndsLine ==
    /\ (rel = "none" /\ AtUnknown /\ mem[start] = 64) =>
          /\ tok = lex_mkspecial("TOK_EOF")
          /\ pc \in {"lexed", "eval", "invalid"}
          /\ lctx.maxRead = start
    /\ (/\ rel = "trunc"
        /\ pc \in {"eval", "invalid", "retry"}
        /\ \A i \in DOMAIN mem : i > Marker => mem[i] = 0) =>
          /\ pc # "retry"
          /\ Kinds(tokens) = Kinds(base.tokens)
          /\ root = base.root

(***************************************************************************)
(* Claims about whitespace.                                                *)
(***************************************************************************)
RECURSIVE BlanksFrom(_)
\* The number of whitespace characters the text holds from index i on
\* without a gap.
BlanksFrom(i) ==
    IF i < Marker /\ isspace(mem[i]) THEN 1 + BlanksFrom(i + 1) ELSE 0

====
